---- MODULE Spec2Model ----
(***************************************************************************)
(* kaeru: conversion of Neo4j bulk-import files (pipe-delimited, typed     *)
(* header) into Souffle declarations and fact files.                       *)
(*                                                                         *)
(* Text is modelled by TLA+ strings; a file is the sequence of its lines   *)
(* (each without the terminating newline).  Python objects are records,    *)
(* a dict keyed by position or name is the sequence of its items in        *)
(* insertion order, and a raised exception is a result with ok = FALSE.    *)
(***************************************************************************)
EXTENDS Integers, Sequences, FiniteSets, TLC

(***************************************************************************)
(* Bounds of the model.                                                    *)
(***************************************************************************)
MaxRows == 2
MaxRuns == 2

(***************************************************************************)
(* Python values that are not text.                                        *)
(***************************************************************************)
None == "<None>"
TAB == "\t"

\* a property value: text, or the integer 0 assigned by the null workaround
StrVal(s) == [t |-> "str", v |-> s]
IntVal(s) == [t |-> "int", v |-> s]

Ok(v) == [ok |-> TRUE, val |-> v, err |-> ""]
Raise(e) == [ok |-> FALSE, val |-> None, err |-> e]

\* f-string formatting of a value that is text or None
Fmt(v) == IF v = None THEN "None" ELSE v

(***************************************************************************)
(* Python string methods                                                   *)
(***************************************************************************)
Lowers == "abcdefghijklmnopqrstuvwxyz"
Uppers == "ABCDEFGHIJKLMNOPQRSTUVWXYZ"

CharAt(s, i) == SubSeq(s, i, i)

IndexIn(c, alphabet) ==
  IF \E i \in 1..Len(alphabet) : CharAt(alphabet, i) = c
  THEN CHOOSE i \in 1..Len(alphabet) : CharAt(alphabet, i) = c
  ELSE 0

ToUpper == [c \in {CharAt(Lowers, i) : i \in 1..Len(Lowers)} |-> CharAt(Uppers, IndexIn(c, Lowers))]
ToLower == [c \in {CharAt(Uppers, i) : i \in 1..Len(Uppers)} |-> CharAt(Lowers, IndexIn(c, Uppers))]

chr_upper(c) == IF c \in DOMAIN ToUpper THEN ToUpper[c] ELSE c
chr_lower(c) == IF c \in DOMAIN ToLower THEN ToLower[c] ELSE c

RECURSIVE str_lower(_)
str_lower(s) ==
  IF Len(s) = 0 THEN "" ELSE chr_lower(CharAt(s, 1)) \o str_lower(Tail(s))

\* str.capitalize(): first character upper-cased, all the others lower-cased
str_capitalize(s) ==
  IF Len(s) = 0 THEN "" ELSE chr_upper(CharAt(s, 1)) \o str_lower(Tail(s))

\* sub in s
str_contains(sub, s) ==
  \E i \in 1..(Len(s) - Len(sub) + 1) : SubSeq(s, i, i + Len(sub) - 1) = sub

\* index of the first occurrence of character c in s at or after i, 0 if none
FirstAt(c, s, i) ==
  IF \E j \in i..Len(s) : CharAt(s, j) = c
  THEN CHOOSE j \in i..Len(s) :
         CharAt(s, j) = c /\ \A k \in i..(j - 1) : CharAt(s, k) # c
  ELSE 0

\* s.split(sep) for a one-character separator
RECURSIVE str_split(_, _)
str_split(s, sep) ==
  LET j == FirstAt(sep, s, 1) IN
  IF j = 0 THEN <<s>>
  ELSE <<SubSeq(s, 1, j - 1)>> \o str_split(SubSeq(s, j + 1, Len(s)), sep)

\* re.findall("\(([^)]+)\)", s): the texts of the non-overlapping groups
RECURSIVE re_findall(_)
re_findall(s) ==
  LET i == FirstAt("(", s, 1) IN
  IF i = 0 THEN <<>>
  ELSE LET j == FirstAt(")", s, i + 1) IN
       IF j = 0 THEN <<>>
       ELSE IF j = i + 1 THEN re_findall(SubSeq(s, i + 1, Len(s)))
       ELSE <<SubSeq(s, i + 1, j - 1)>> \o re_findall(SubSeq(s, j + 1, Len(s)))

\* sep.join(seq)
RECURSIVE str_join(_, _)
str_join(seq, sep) ==
  IF Len(seq) = 0 THEN ""
  ELSE IF Len(seq) = 1 THEN seq[1]
  ELSE seq[1] \o sep \o str_join(Tail(seq), sep)

(***************************************************************************)
(* OrderedDict: the sequence of its items in insertion order               *)
(***************************************************************************)
od_has(d, k) == \E i \in 1..Len(d) : d[i].k = k
od_index(d, k) == CHOOSE i \in 1..Len(d) : d[i].k = k
od_get(d, k) == d[od_index(d, k)].v
\* d[k] = v: an existing key keeps its place, a new key goes last
od_set(d, k, v) ==
  IF od_has(d, k) THEN [d EXCEPT ![od_index(d, k)].v = v]
  ELSE Append(d, [k |-> k, v |-> v])
od_pop(d, k) ==
  LET i == od_index(d, k) IN SubSeq(d, 1, i - 1) \o SubSeq(d, i + 1, Len(d))
od_keys(d) == [i \in 1..Len(d) |-> d[i].k]
od_values(d) == [i \in 1..Len(d) |-> d[i].v]

(***************************************************************************)
(* node.py: NodeSchema and Node                                            *)
(***************************************************************************)
NodeSchema ==
  [entryToField |-> <<>>,
   nodeSubLabels |-> {},
   nodeGlobalLabel |-> None,
   nodeProperty |-> <<>>,
   hasSubLabels |-> FALSE,
   subLabelsPosition |-> None]

\* positions are those of enumerate(): 0, 1, 2, ... in this order
addEntry(schema, position, fieldType) ==
  [schema EXCEPT !.entryToField = Append(@, fieldType)]

addProperty(schema, position, propertyName, propertyType) ==
  [schema EXCEPT !.nodeProperty =
     Append(@, [pos |-> position, name |-> propertyName, type |-> propertyType])]

addSubLabel(schema, label) ==
  [schema EXCEPT !.nodeSubLabels = @ \cup {label}]

\* setGlobalLabel that leaves a label already set in place
setGlobalLabel_keepFirst(schema, label) ==
  IF schema.nodeGlobalLabel # None THEN schema
  ELSE [schema EXCEPT !.nodeGlobalLabel = label]

setGlobalLabel(schema, label) ==
  [schema EXCEPT !.nodeGlobalLabel = label]

\* setSubLabelPosition that records the position only
setSubLabelPosition_noFlag(schema, position) ==
  [schema EXCEPT !.subLabelsPosition = position]

setSubLabelPosition(schema, position) ==
  [schema EXCEPT !.hasSubLabels = TRUE, !.subLabelsPosition = position]

\* entryToField[position]: KeyError outside the header's positions
hasEntry(schema, position) == position < Len(schema.entryToField)
getEntryType(schema, position) == schema.entryToField[position + 1]

getPropertyName(schema, position) ==
  LET i == CHOOSE i \in 1..Len(schema.nodeProperty) :
             schema.nodeProperty[i].pos = position
  IN schema.nodeProperty[i].name

\* the type of the first property, in insertion order, that has this name
getPropertyType(schema, propertyName) ==
  LET i == CHOOSE i \in 1..Len(schema.nodeProperty) :
             /\ schema.nodeProperty[i].name = propertyName
             /\ \A j \in 1..(i - 1) : schema.nodeProperty[j].name # propertyName
  IN schema.nodeProperty[i].type

Node == [id |-> None, label |-> None, property |-> <<>>]

\* mapToSouffleType with an unknown tag passed through unmapped
mapToSouffleType_unknownAsTag(propertyType) ==
  IF propertyType = "STRING" THEN "symbol"
  ELSE IF propertyType = "LONG" THEN "unsigned"
  ELSE IF propertyType = "INT" THEN "unsigned"
  ELSE propertyType

mapToSouffleType(propertyType) ==
  IF propertyType = "STRING" THEN "symbol"
  ELSE IF propertyType = "LONG" THEN "unsigned"
  ELSE IF propertyType = "INT" THEN "unsigned"
  ELSE "symbol"

\* the header loop of createNodeSchema
RECURSIVE nodeHeaderLoop(_, _, _)
nodeHeaderLoop(fileHeader, position, schema) ==
  IF position >= Len(fileHeader) THEN Ok(schema)
  ELSE
    LET attribute == fileHeader[position + 1] IN
    IF str_contains(":ID", attribute) THEN
      LET groupLabel == re_findall(attribute) IN
      IF Len(groupLabel) = 1
      THEN nodeHeaderLoop(fileHeader, position + 1,
             setGlobalLabel(addEntry(schema, position, "ID"), groupLabel[1]))
      ELSE Raise("Error: too many (LABEL) found in the input data file")
    ELSE IF str_contains(":LABEL", attribute) THEN
      nodeHeaderLoop(fileHeader, position + 1,
        setSubLabelPosition(addEntry(schema, position, "LABEL"), position))
    ELSE
      LET parts == str_split(attribute, ":")
          propertyName == IF str_contains(":", attribute) THEN parts[1] ELSE attribute
          propertyType == IF str_contains(":", attribute)
                          THEN mapToSouffleType(parts[2]) ELSE "unsigned"
      IN nodeHeaderLoop(fileHeader, position + 1,
           addProperty(addEntry(schema, position, "PROPERTY"),
                       position, propertyName, propertyType))

\* subLabelScan that stops after the first data row
RECURSIVE subLabelScan_firstRowOnly(_, _, _)
subLabelScan_firstRowOnly(rows, i, schema) ==
  IF i > Len(rows) \/ i > 1 THEN Ok(schema)
  ELSE
    LET cols == str_split(rows[i], "|")
        labelPos == schema.subLabelsPosition
    IN IF labelPos >= Len(cols) THEN Raise("IndexError: list index out of range")
       ELSE subLabelScan_firstRowOnly(rows, i + 1, addSubLabel(schema, cols[labelPos + 1]))

\* the second pass of createNodeSchema over the data rows
RECURSIVE subLabelScan(_, _, _)
subLabelScan(rows, i, schema) ==
  IF i > Len(rows) THEN Ok(schema)
  ELSE
    LET cols == str_split(rows[i], "|")
        labelPos == schema.subLabelsPosition
    IN IF labelPos >= Len(cols) THEN Raise("IndexError: list index out of range")
       ELSE subLabelScan(rows, i + 1, addSubLabel(schema, cols[labelPos + 1]))

\* inputFile is the sequence of the file's lines, header first
createNodeSchema(inputFile, label) ==
  LET schema0 == IF label # "" /\ label # None
                 THEN setGlobalLabel(NodeSchema, label) ELSE NodeSchema
      fileHeader == str_split(inputFile[1], "|")
      parsed == nodeHeaderLoop(fileHeader, 0, schema0)
  IN IF ~parsed.ok THEN parsed
     ELSE IF parsed.val.hasSubLabels
     THEN subLabelScan(Tail(inputFile), 1, parsed.val)
     ELSE parsed

\* the column loop of createNodes for one row
RECURSIVE nodeColumnLoop(_, _, _, _)
nodeColumnLoop(nodeSchema, rowData, position, node) ==
  IF position >= Len(rowData) THEN Ok(node)
  ELSE
    LET value == rowData[position + 1] IN
    IF ~hasEntry(nodeSchema, position) THEN Raise("KeyError")
    ELSE IF getEntryType(nodeSchema, position) = "ID" THEN
      nodeColumnLoop(nodeSchema, rowData, position + 1, [node EXCEPT !.id = value])
    ELSE IF getEntryType(nodeSchema, position) = "LABEL" THEN
      nodeColumnLoop(nodeSchema, rowData, position + 1, [node EXCEPT !.label = value])
    ELSE IF getEntryType(nodeSchema, position) = "PROPERTY" THEN
      LET propertyName == getPropertyName(nodeSchema, position)
          propertyType == getPropertyType(nodeSchema, propertyName)
          stored == IF value = ""
                    THEN (IF propertyType = "symbol" THEN StrVal("NULL") ELSE IntVal("0"))
                    ELSE StrVal(value)
      IN nodeColumnLoop(nodeSchema, rowData, position + 1,
           [node EXCEPT !.property = od_set(@, propertyName, stored)])
    ELSE Raise("Error: Unknown Node Type detected.")

\* the renaming loop of createNodes over the property names the node had
RECURSIVE renameLoop(_, _, _)
renameLoop(node, propertyNameList, i) ==
  IF i > Len(propertyNameList) THEN node
  ELSE
    LET propertyName == propertyNameList[i]
        newPropertyName == node.label \o str_capitalize(propertyName)
        propertyValue == od_get(node.property, propertyName)
    IN renameLoop(
         [node EXCEPT !.property =
            od_set(od_pop(@, propertyName), newPropertyName, propertyValue)],
         propertyNameList, i + 1)

createNode(row, nodeSchema) ==
  LET rowData == str_split(row, "|")
      filled == nodeColumnLoop(nodeSchema, rowData, 0, Node)
  IN IF ~filled.ok THEN filled
     ELSE IF filled.val.label # None
     THEN Ok(renameLoop(filled.val, od_keys(filled.val.property), 1))
     ELSE Ok([filled.val EXCEPT !.label = nodeSchema.nodeGlobalLabel])

RECURSIVE createNodesLoop(_, _, _, _)
createNodesLoop(rows, i, nodeSchema, nodeList) ==
  IF i > Len(rows) THEN Ok(nodeList)
  ELSE LET made == createNode(rows[i], nodeSchema) IN
       IF ~made.ok THEN made
       ELSE createNodesLoop(rows, i + 1, nodeSchema, Append(nodeList, made.val))

createNodes(inputFile, nodeSchema) ==
  createNodesLoop(Tail(inputFile), 1, nodeSchema, <<>>)

(***************************************************************************)
(* node.py: declaration emitters.  The result is the sequence of lines     *)
(* written to outputFile.  subLabelList is the set nodeSubLabels in the    *)
(* order in which the process iterates over it.                            *)
(***************************************************************************)
RECURSIVE Flatten(_)
Flatten(ss) == IF Len(ss) = 0 THEN <<>> ELSE ss[1] \o Flatten(Tail(ss))

declLine(name, columns) == ".decl " \o name \o "(" \o columns \o ")"
inputLine(name) ==
  ".input " \o name \o "(IO=file, filename=\"" \o name \o ".facts\")"

\* writeColumnBasedNodePropertyDeclHelper with the global-label test done on
\* the names as written instead of on their lower-cased forms
writeColumnBasedNodePropertyDeclHelper_caseSensitive(nodeSchema, subLabelList) ==
  LET nodeProperty == nodeSchema.nodeProperty
      one(newPropertyName, propertyType) ==
        << declLine(newPropertyName,
                    "id:unsigned, " \o newPropertyName \o ":" \o propertyType),
           inputLine(newPropertyName),
           "" >>
      perProperty(p) ==
        IF nodeSchema.hasSubLabels
        THEN Flatten([s \in 1..Len(subLabelList) |->
                        one(subLabelList[s] \o p.name, p.type)])
        ELSE IF ~str_contains(nodeSchema.nodeGlobalLabel, p.name)
        THEN one(Fmt(nodeSchema.nodeGlobalLabel) \o str_capitalize(p.name), p.type)
        ELSE one(p.name, p.type)
  IN Flatten([i \in 1..Len(nodeProperty) |-> perProperty(nodeProperty[i])])

writeColumnBasedNodePropertyDeclHelper(nodeSchema, subLabelList) ==
  LET nodeProperty == nodeSchema.nodeProperty
      one(newPropertyName, propertyType) ==
        << declLine(newPropertyName,
                    "id:unsigned, " \o newPropertyName \o ":" \o propertyType),
           inputLine(newPropertyName),
           "" >>
      perProperty(p) ==
        IF nodeSchema.hasSubLabels
        THEN Flatten([s \in 1..Len(subLabelList) |->
                        one(subLabelList[s] \o p.name, p.type)])
        ELSE IF ~str_contains(str_lower(nodeSchema.nodeGlobalLabel), str_lower(p.name))
        THEN one(Fmt(nodeSchema.nodeGlobalLabel) \o str_capitalize(p.name), p.type)
        ELSE one(p.name, p.type)
  IN Flatten([i \in 1..Len(nodeProperty) |-> perProperty(nodeProperty[i])])

writeColumnBasedNodePropertyUnionDeclHelper(nodeSchema, subLabelList) ==
  LET nodeProperty == nodeSchema.nodeProperty
      perProperty(p) ==
        IF nodeSchema.hasSubLabels
        THEN LET propertyName == str_capitalize(p.name)
                 globalLabel == Fmt(nodeSchema.nodeGlobalLabel)
             IN << declLine(globalLabel \o propertyName,
                            "id:unsigned, " \o propertyName \o ":" \o p.type) >>
                \o [s \in 1..Len(subLabelList) |->
                      globalLabel \o propertyName \o "(id, " \o propertyName \o ") :- "
                      \o subLabelList[s] \o propertyName \o "(id, " \o propertyName \o ")."]
                \o << "" >>
        ELSE << "" >>
  IN Flatten([i \in 1..Len(nodeProperty) |-> perProperty(nodeProperty[i])])

writeColumnBasedNodeIdDeclHelper(nodeSchema, subLabelList) ==
  LET nodeLabelSets == IF nodeSchema.hasSubLabels THEN subLabelList
                       ELSE << Fmt(nodeSchema.nodeGlobalLabel) >>
      globalLabel == Fmt(nodeSchema.nodeGlobalLabel)
  IN Flatten([i \in 1..Len(nodeLabelSets) |->
               << declLine(nodeLabelSets[i], "id:unsigned"),
                  inputLine(nodeLabelSets[i]),
                  "" >>])
     \o (IF nodeSchema.hasSubLabels
         THEN << declLine(globalLabel, "id:unsigned") >>
              \o [s \in 1..Len(subLabelList) |->
                    globalLabel \o "(id):- " \o subLabelList[s] \o "(id)."]
              \o << "" >>
         ELSE <<>>)

writeColumnBasedNodeDeclaration(nodeSchema, subLabelList) ==
  writeColumnBasedNodeIdDeclHelper(nodeSchema, subLabelList)
  \o writeColumnBasedNodePropertyDeclHelper(nodeSchema, subLabelList)
  \o writeColumnBasedNodePropertyUnionDeclHelper(nodeSchema, subLabelList)

\* ", p1:t1, p2:t2" (typed) or ", p1, p2" over the properties in dict order
RECURSIVE rowColumns(_, _)
rowColumns(nodeProperty, typed) ==
  IF Len(nodeProperty) = 0 THEN ""
  ELSE ", " \o nodeProperty[1].name
       \o (IF typed THEN ":" \o nodeProperty[1].type ELSE "")
       \o rowColumns(Tail(nodeProperty), typed)

\* writeRowBasedNodeDeclaration with the union rules' body listing the
\* identifier only
writeRowBasedNodeDeclaration_bodyIdOnly(nodeSchema, subLabelList) ==
  LET nodeLabelSets == IF nodeSchema.hasSubLabels THEN subLabelList
                       ELSE << Fmt(nodeSchema.nodeGlobalLabel) >>
      nodeProperty == nodeSchema.nodeProperty
      globalLabel == Fmt(nodeSchema.nodeGlobalLabel)
  IN Flatten([i \in 1..Len(nodeLabelSets) |->
               << declLine(nodeLabelSets[i], "id:unsigned" \o rowColumns(nodeProperty, TRUE)),
                  inputLine(nodeLabelSets[i]),
                  "" >>])
     \o (IF nodeSchema.hasSubLabels
         THEN << declLine(globalLabel, "id:unsigned" \o rowColumns(nodeProperty, TRUE)) >>
              \o [s \in 1..Len(subLabelList) |->
                    globalLabel \o "(id" \o rowColumns(nodeProperty, FALSE) \o "):- "
                    \o subLabelList[s] \o "(id)."]
              \o << "" >>
         ELSE <<>>)

writeRowBasedNodeDeclaration(nodeSchema, subLabelList) ==
  LET nodeLabelSets == IF nodeSchema.hasSubLabels THEN subLabelList
                       ELSE << Fmt(nodeSchema.nodeGlobalLabel) >>
      nodeProperty == nodeSchema.nodeProperty
      globalLabel == Fmt(nodeSchema.nodeGlobalLabel)
  IN Flatten([i \in 1..Len(nodeLabelSets) |->
               << declLine(nodeLabelSets[i], "id:unsigned" \o rowColumns(nodeProperty, TRUE)),
                  inputLine(nodeLabelSets[i]),
                  "" >>])
     \o (IF nodeSchema.hasSubLabels
         THEN << declLine(globalLabel, "id:unsigned" \o rowColumns(nodeProperty, TRUE)) >>
              \o [s \in 1..Len(subLabelList) |->
                    globalLabel \o "(id" \o rowColumns(nodeProperty, FALSE) \o "):- "
                    \o subLabelList[s] \o "(id" \o rowColumns(nodeProperty, FALSE) \o ")."]
              \o << "" >>
         ELSE <<>>)

(***************************************************************************)
(* node.py: fact writers.  The result is the line written (without its     *)
(* newline), or the TypeError of concatenating text with None or with an   *)
(* integer.                                                                *)
(***************************************************************************)
TypeError == "TypeError: can only concatenate str to str"

writeColumnBasedNodeIdentifierFacts(node) ==
  IF node.id = None THEN Raise(TypeError) ELSE Ok(node.id)

writeColumnBasedNodePropertyFacts(node, propertyName) ==
  LET propertyValue == od_get(node.property, propertyName) IN
  IF node.id = None \/ propertyValue.t # "str" THEN Raise(TypeError)
  ELSE Ok(node.id \o TAB \o propertyValue.v)

\* output += "\t" + value over the values in dict order
RECURSIVE concatValues(_, _)
concatValues(output, values) ==
  IF Len(values) = 0 THEN Ok(output)
  ELSE IF values[1].t # "str" THEN Raise(TypeError)
  ELSE concatValues(output \o TAB \o values[1].v, Tail(values))

writeRowBasedNodeFacts(node, nodeSchema) ==
  IF node.id = None THEN Raise(TypeError)
  ELSE concatValues(node.id, od_values(node.property))

(***************************************************************************)
(* relation.py                                                             *)
(***************************************************************************)
RelationSchema ==
  [entryToField |-> <<>>,
   relationGlobalLabel |-> None,
   relationProperty |-> <<>>,
   sourceName |-> <<>>]

setSourceName(schema, name) ==
  [schema EXCEPT !.sourceName = od_set(@, "start", name)]

setTargetName(schema, name) ==
  [schema EXCEPT !.sourceName = od_set(@, "target", name)]

getSourceName(schema) ==
  IF od_has(schema.sourceName, "start")
  THEN Ok(od_get(schema.sourceName, "start")) ELSE Raise("KeyError: 'start'")

getTargetName(schema) ==
  IF od_has(schema.sourceName, "target")
  THEN Ok(od_get(schema.sourceName, "target")) ELSE Raise("KeyError: 'target'")

relAddEntry(schema, position, fieldType) ==
  [schema EXCEPT !.entryToField = Append(@, fieldType)]

relAddProperty(schema, position, propertyName, propertyType) ==
  [schema EXCEPT !.relationProperty =
     Append(@, [pos |-> position, name |-> propertyName, type |-> propertyType])]

\* the names in ascending position order
getPropertyNames(schema) ==
  [i \in 1..Len(schema.relationProperty) |-> schema.relationProperty[i].name]

getPropertyTypeByName(schema, propertyName) ==
  LET i == CHOOSE i \in 1..Len(schema.relationProperty) :
             /\ schema.relationProperty[i].name = propertyName
             /\ \A j \in 1..(i - 1) : schema.relationProperty[j].name # propertyName
  IN schema.relationProperty[i].type

relProperty(schema, position) ==
  schema.relationProperty[CHOOSE i \in 1..Len(schema.relationProperty) :
                            schema.relationProperty[i].pos = position]

getPropertyTypeByPosition(schema, position) == relProperty(schema, position).type

relGetPropertyName(schema, position) == relProperty(schema, position).name

\* relation.py has its own copy of the mapping
relMapToSouffleType(propertyType) ==
  IF propertyType = "STRING" THEN "symbol"
  ELSE IF propertyType = "LONG" THEN "unsigned"
  ELSE IF propertyType = "INT" THEN "unsigned"
  ELSE "symbol"

RECURSIVE relationHeaderLoop(_, _, _)
relationHeaderLoop(fileHeader, position, schema) ==
  IF position >= Len(fileHeader) THEN schema
  ELSE
    LET attribute == fileHeader[position + 1] IN
    IF str_contains("START_ID", attribute) THEN
      LET sourceName == re_findall(attribute)
          s1 == relAddEntry(schema, position, "START_ID")
      IN relationHeaderLoop(fileHeader, position + 1,
           IF Len(sourceName) = 1 THEN setSourceName(s1, sourceName[1] \o "Id")
           ELSE setSourceName(s1, "startId"))
    ELSE IF str_contains("END_ID", attribute) THEN
      LET targetName == re_findall(attribute)
          s1 == relAddEntry(schema, position, "END_ID")
      IN relationHeaderLoop(fileHeader, position + 1,
           IF Len(targetName) = 1 THEN setTargetName(s1, targetName[1] \o "Id")
           ELSE setSourceName(s1, "endId"))
    ELSE
      LET parts == str_split(attribute, ":")
          propertyName == IF str_contains(":", attribute) THEN parts[1] ELSE attribute
          propertyType == IF str_contains(":", attribute)
                          THEN relMapToSouffleType(parts[2]) ELSE "unsigned"
      IN relationHeaderLoop(fileHeader, position + 1,
           relAddProperty(relAddEntry(schema, position, "PROPERTY"),
                          position, propertyName, propertyType))

\* createRelationSchema without the test of the label
createRelationSchema_labelOptional(inputFile, label) ==
  Ok(relationHeaderLoop(str_split(inputFile[1], "|"), 0,
                        IF label = "" \/ label = None THEN RelationSchema
                        ELSE [RelationSchema EXCEPT !.relationGlobalLabel = label]))

createRelationSchema(inputFile, label) ==
  IF label = "" \/ label = None
  THEN Raise("Error: please supply relation label through cli option.")
  ELSE Ok(relationHeaderLoop(str_split(inputFile[1], "|"), 0,
                             [RelationSchema EXCEPT !.relationGlobalLabel = label]))

Relation == [label |-> None, startId |-> None, endId |-> None, property |-> <<>>]

RECURSIVE relationColumnLoop(_, _, _, _)
relationColumnLoop(relationSchema, rowData, position, relation) ==
  IF position >= Len(rowData) THEN Ok(relation)
  ELSE
    LET value == rowData[position + 1] IN
    IF position >= Len(relationSchema.entryToField) THEN Raise("KeyError")
    ELSE IF relationSchema.entryToField[position + 1] = "START_ID" THEN
      relationColumnLoop(relationSchema, rowData, position + 1,
                         [relation EXCEPT !.startId = value])
    ELSE IF relationSchema.entryToField[position + 1] = "END_ID" THEN
      relationColumnLoop(relationSchema, rowData, position + 1,
                         [relation EXCEPT !.endId = value])
    ELSE IF relationSchema.entryToField[position + 1] = "PROPERTY" THEN
      LET propertyName == relGetPropertyName(relationSchema, position)
          propertyType == getPropertyTypeByPosition(relationSchema, position)
      IN IF value = "" /\ propertyType # "symbol" /\ propertyType # "unsigned"
         THEN Raise("Warning: Unknown property type found in relation schema")
         ELSE relationColumnLoop(relationSchema, rowData, position + 1,
                [relation EXCEPT !.property =
                   od_set(@, propertyName,
                          IF value = ""
                          THEN (IF propertyType = "symbol"
                                THEN StrVal("NULL") ELSE IntVal("0"))
                          ELSE StrVal(value))])
    ELSE Raise("Error: Unknown Relation Type detected.")

RECURSIVE createRelationLoop(_, _, _, _)
createRelationLoop(rows, i, relationSchema, relationList) ==
  IF i > Len(rows) THEN Ok(relationList)
  ELSE
    LET made == relationColumnLoop(relationSchema, str_split(rows[i], "|"), 0, Relation) IN
    IF ~made.ok THEN made
    ELSE createRelationLoop(rows, i + 1, relationSchema,
           Append(relationList,
                  IF made.val.label = None
                  THEN [made.val EXCEPT !.label = relationSchema.relationGlobalLabel]
                  ELSE made.val))

createRelation(inputFile, relationSchema) ==
  createRelationLoop(Tail(inputFile), 1, relationSchema, <<>>)

RECURSIVE relColumns(_, _)
relColumns(relationSchema, propertyNameList) ==
  IF Len(propertyNameList) = 0 THEN ""
  ELSE ", " \o propertyNameList[1] \o ":"
       \o getPropertyTypeByName(relationSchema, propertyNameList[1])
       \o relColumns(relationSchema, Tail(propertyNameList))

\* the two lines of the single write, or the KeyError of a missing endpoint name
writeRelationDeclation(relationSchema) ==
  LET globalLabel == Fmt(relationSchema.relationGlobalLabel)
      sourceName == getSourceName(relationSchema)
      targetName == getTargetName(relationSchema)
  IN IF ~sourceName.ok THEN sourceName
     ELSE IF ~targetName.ok THEN targetName
     ELSE Ok(<< declLine(globalLabel,
                  sourceName.val \o ":unsigned, " \o targetName.val \o ":unsigned"
                  \o relColumns(relationSchema, getPropertyNames(relationSchema))),
                inputLine(globalLabel) >>)

writeRelationFacts(relation) ==
  IF relation.startId = None \/ relation.endId = None THEN Raise(TypeError)
  ELSE concatValues(relation.startId \o TAB \o relation.endId,
                    od_values(relation.property))

(***************************************************************************)
(* Inputs: a node or relation file is a header and up to MaxRows of the    *)
(* data rows listed with the header, in the listed order.                  *)
(***************************************************************************)
RECURSIVE pick(_, _, _)
pick(pool, chosen, i) ==
  IF i > Len(pool) THEN <<>>
  ELSE (IF i \in chosen THEN <<pool[i]>> ELSE <<>>) \o pick(pool, chosen, i + 1)

RowsUpTo(pool, n) ==
  { pick(pool, chosen, 1) :
      chosen \in {c \in SUBSET (1..Len(pool)) : Cardinality(c) <= n} }

NodeInputs ==
  { [header |-> "id:ID(L)|p1:STRING|p2:LONG",
     pool |-> <<"0|a|5", "1||", "2|b", "3|c|7|z">>],
    [header |-> "id:ID(City)|name:STRING|cityScore:LONG",
     pool |-> <<"0|a|5", "|d|8", "1||">>],
    [header |-> "id:ID(Organisation)|:LABEL|orgName:STRING|score:LONG",
     pool |-> <<"0|Company|a|5", "1|University||", "2|Organisation|b|6">>],
    [header |-> "id:ID(Global)|:LABEL|score:LONG",
     pool |-> <<"0|A|5", "1|B|6", "3">>],
    [header |-> "id:ID(L)|p:STRING|p:LONG",
     pool |-> <<"0|a|5", "1||">>],
    [header |-> "id:ID(G)|:LABEL|ab:STRING|aB:LONG",
     pool |-> <<"0|S|x|5", "1|S|y|6">>],
    [header |-> "id:ID|name:STRING",
     pool |-> <<"0|a">>],
    [header |-> "id:ID(A)(B)|name",
     pool |-> <<"0|5">>],
    [header |-> "id:ID(A)|x:ID(B)|fullName:FLOAT|q:LONG:x",
     pool |-> <<"0|1|a|">>],
    [header |-> "id:ID(T)|a:INT|b:|c:long|d:boolean",
     pool |-> <<"0|1||x|y">>] }

RelationInputs ==
  { [header |-> ":START_ID(Person)|:END_ID(City)|weight:LONG",
     pool |-> <<"1|2|7", "1|2|", "3|4", "5|6|7|9">>],
    [header |-> ":START_ID|:END_ID|weight:LONG",
     pool |-> <<"1|2|7">>],
    [header |-> "since:INT|:END_ID(City)|:START_ID(Person)|note:STRING|rank",
     pool |-> <<"5|2|1|x|3", "|2|1||">>],
    [header |-> ":START_ID(P)|:END_ID(Q)|w:LONG|w:STRING|k:DATE:x",
     pool |-> <<"1|2|7|x|d", "1|2|||">>],
    [header |-> ":START_ID(T)|:END_ID(U)|a:|b:long|c:FLOAT",
     pool |-> <<"1|2|||">>] }

FilesOf(inputs) ==
  UNION { { <<h.header>> \o rows : rows \in RowsUpTo(h.pool, MaxRows) } : h \in inputs }

NodeLabels == {"L"}
RelationLabels == {"", "L"}
Storages == {"row", "col"}
GenTypes == {"schema", "fact", "all"}

\* the orders in which a Python set of these elements can be iterated
Orderings(S) ==
  { o \in [1..Cardinality(S) -> S] : \A i, j \in 1..Cardinality(S) : o[i] = o[j] => i = j }

(***************************************************************************)
(* The output directory: file name -> lines                                *)
(***************************************************************************)
EmptyDir == [n \in {} |-> <<>>]

\* fsWrite with the file opened in mode "a"
fsWrite_appending(dir, name, lines) ==
  [n \in (DOMAIN dir) \cup {name} |->
     IF n = name THEN (IF n \in DOMAIN dir THEN dir[n] ELSE <<>>) \o lines ELSE dir[n]]

\* open(name, "w"), write the lines, close
fsWrite(dir, name, lines) ==
  [n \in (DOMAIN dir) \cup {name} |-> IF n = name THEN lines ELSE dir[n]]

\* fsAppend with the file opened in mode "w"
fsAppend_truncating(dir, name, lines) ==
  [n \in (DOMAIN dir) \cup {name} |-> IF n = name THEN lines ELSE dir[n]]

\* open(name, "a"), write the lines, close
fsAppend(dir, name, lines) ==
  [n \in (DOMAIN dir) \cup {name} |->
     IF n = name THEN (IF n \in DOMAIN dir THEN dir[n] ELSE <<>>) \o lines ELSE dir[n]]

declPath(label) == Fmt(label) \o "_decl.txt"
factPath(name) == Fmt(name) \o ".facts"

\* the appends node_fact_process attempts for one node in column storage
colWrites(node) ==
  << [file |-> factPath(node.label), res |-> writeColumnBasedNodeIdentifierFacts(node)] >>
  \o [i \in 1..Len(node.property) |->
        [file |-> factPath(node.property[i].k),
         res |-> writeColumnBasedNodePropertyFacts(node, node.property[i].k)]]

rowWrites(node, schema) ==
  << [file |-> factPath(node.label), res |-> writeRowBasedNodeFacts(node, schema)] >>

relWrites(relation) ==
  << [file |-> factPath(relation.label), res |-> writeRelationFacts(relation)] >>

\* applyWrites that passes over a writer that raises and goes on
RECURSIVE applyWrites_continue(_, _, _, _, _)
applyWrites_continue(dir, log, writes, i, rec) ==
  IF i > Len(writes) THEN [dir |-> dir, log |-> log, err |-> ""]
  ELSE LET w == writes[i] IN
       IF w.res.ok
       THEN applyWrites_continue(fsAppend(dir, w.file, <<w.res.val>>),
                                 Append(log, [file |-> w.file, line |-> w.res.val, rec |-> rec]),
                                 writes, i + 1, rec)
       ELSE applyWrites_continue(fsAppend(dir, w.file, <<>>), log, writes, i + 1, rec)

\* each append opens (and so creates) its file before the writer runs; the
\* first writer that raises ends the run
RECURSIVE applyWrites(_, _, _, _, _)
applyWrites(dir, log, writes, i, rec) ==
  IF i > Len(writes) THEN [dir |-> dir, log |-> log, err |-> ""]
  ELSE LET w == writes[i] IN
       IF w.res.ok
       THEN applyWrites(fsAppend(dir, w.file, <<w.res.val>>),
                        Append(log, [file |-> w.file, line |-> w.res.val, rec |-> rec]),
                        writes, i + 1, rec)
       ELSE [dir |-> fsAppend(dir, w.file, <<>>), log |-> log, err |-> w.res.err]

(***************************************************************************)
(* State                                                                   *)
(***************************************************************************)
VARIABLES
  command,        \* "node" or "relation": the sub-command of every run
  label,          \* args.label
  storage,        \* args.storage
  inputFile,      \* the lines of args.file
  genType,        \* args.type of the current run
  runs,           \* number of runs started
  pc,             \* the step the current run is at, "idle" between runs
  nodeSchema,
  subLabelList,   \* iteration order of nodeSchema.nodeSubLabels in this process
  nodeList,
  relationSchema,
  relationList,
  idx,            \* index in nodeList / relationList of the next record to write
  fs,             \* the output directory
  error,          \* the exception that ended the current or last run, "" if none
  written,        \* the fact lines appended by the current run, in order
  declHistory,    \* the declaration text written by each schema step so far
  factRuns        \* number of fact generations (node_fact_process,
                  \* relation_fact_process) entered so far

vars == <<command, label, storage, inputFile, genType, runs, pc, nodeSchema,
          subLabelList, nodeList, relationSchema, relationList, idx, fs, error,
          written, declHistory, factRuns>>

args == <<command, label, storage, inputFile>>
mem == <<nodeSchema, subLabelList, nodeList, relationSchema, relationList, idx>>

Init ==
  /\ command \in {"node", "relation"}
  /\ label \in (IF command = "node" THEN NodeLabels ELSE RelationLabels)
  /\ storage \in (IF command = "node" THEN Storages ELSE {"row"})
  /\ inputFile \in (IF command = "node" THEN FilesOf(NodeInputs) ELSE FilesOf(RelationInputs))
  /\ genType = "schema"
  /\ runs = 0
  /\ pc = "idle"
  /\ nodeSchema = NodeSchema
  /\ subLabelList = <<>>
  /\ nodeList = <<>>
  /\ relationSchema = RelationSchema
  /\ relationList = <<>>
  /\ idx = 0
  /\ fs = EmptyDir
  /\ error = ""
  /\ written = <<>>
  /\ declHistory = <<>>
  /\ factRuns = 0

\* cli.process_args -> node_processing_pipeline / relation_processing_pipeline
StartRun ==
  /\ pc = "idle"
  /\ runs < MaxRuns
  /\ \E t \in GenTypes :
       /\ genType' = t
       /\ pc' = (IF command = "node" THEN "node" ELSE "rel")
                \o (IF t = "fact" THEN "_fact_schema" ELSE "_schema_create")
  /\ runs' = runs + 1
  /\ nodeSchema' = NodeSchema
  /\ subLabelList' = <<>>
  /\ nodeList' = <<>>
  /\ relationSchema' = RelationSchema
  /\ relationList' = <<>>
  /\ idx' = 0
  /\ error' = ""
  /\ written' = <<>>
  /\ UNCHANGED <<args, factRuns, fs, declHistory>>

\* node_schema_process: createNodeSchema
NodeSchemaCreate ==
  /\ pc = "node_schema_create"
  /\ LET made == createNodeSchema(inputFile, label) IN
     IF made.ok
     THEN /\ nodeSchema' = made.val
          /\ subLabelList' \in Orderings(made.val.nodeSubLabels)
          /\ pc' = "node_schema_write"
          /\ error' = error
     ELSE /\ error' = made.err
          /\ pc' = "idle"
          /\ UNCHANGED <<nodeSchema, subLabelList>>
  /\ UNCHANGED <<args, factRuns, genType, runs, nodeList, relationSchema, relationList, idx,
                 fs, written, declHistory>>

\* node_schema_process: open the declaration file for writing and emit
NodeSchemaWrite ==
  /\ pc = "node_schema_write"
  /\ LET text == IF storage = "row"
                 THEN writeRowBasedNodeDeclaration(nodeSchema, subLabelList)
                 ELSE writeColumnBasedNodeDeclaration(nodeSchema, subLabelList)
     IN /\ fs' = fsWrite(fs, declPath(label), text)
        /\ declHistory' = Append(declHistory, text)
  /\ pc' = IF genType = "all" THEN "node_fact_schema" ELSE "idle"
  /\ UNCHANGED <<args, factRuns, genType, runs, mem, error, written>>

\* node_fact_process: createNodeSchema; within one process the set of
\* sub-labels is built and iterated the same way as in node_schema_process
NodeFactCreateSchema ==
  /\ pc = "node_fact_schema"
  /\ LET made == createNodeSchema(inputFile, label) IN
     IF made.ok
     THEN /\ nodeSchema' = made.val
          /\ IF genType = "all" THEN subLabelList' = subLabelList
             ELSE subLabelList' \in Orderings(made.val.nodeSubLabels)
          /\ pc' = "node_fact_nodes"
          /\ error' = error
     ELSE /\ error' = made.err
          /\ pc' = "idle"
          /\ UNCHANGED <<nodeSchema, subLabelList>>
  /\ factRuns' = factRuns + 1
  /\ UNCHANGED <<args, genType, runs, nodeList, relationSchema, relationList, idx,
                 fs, written, declHistory>>

\* node_fact_process: createNodes
NodeFactCreateNodes ==
  /\ pc = "node_fact_nodes"
  /\ LET made == createNodes(inputFile, nodeSchema) IN
     IF made.ok
     THEN /\ nodeList' = made.val
          /\ pc' = IF Len(made.val) = 0 THEN "idle" ELSE "node_fact_write"
          /\ error' = error
     ELSE /\ error' = made.err
          /\ pc' = "idle"
          /\ UNCHANGED nodeList
  /\ idx' = 0
  /\ UNCHANGED <<args, factRuns, genType, runs, nodeSchema, subLabelList, relationSchema,
                 relationList, fs, written, declHistory>>

\* node_fact_process: one iteration of the loop over nodeList
NodeFactWrite ==
  /\ pc = "node_fact_write"
  /\ idx < Len(nodeList)
  /\ LET node == nodeList[idx + 1]
         writes == IF storage = "row" THEN rowWrites(node, nodeSchema) ELSE colWrites(node)
         done == applyWrites(fs, written, writes, 1, idx)
     IN /\ fs' = done.dir
        /\ written' = done.log
        /\ error' = done.err
        /\ idx' = IF done.err = "" THEN idx + 1 ELSE idx
        /\ pc' = IF done.err # "" \/ idx + 1 = Len(nodeList) THEN "idle"
                 ELSE "node_fact_write"
  /\ UNCHANGED <<args, factRuns, genType, runs, nodeSchema, subLabelList, nodeList,
                 relationSchema, relationList, declHistory>>

\* relation_schema_process: createRelationSchema
RelationSchemaCreate ==
  /\ pc = "rel_schema_create"
  /\ LET made == createRelationSchema(inputFile, label) IN
     IF made.ok
     THEN /\ relationSchema' = made.val
          /\ pc' = "rel_schema_write"
          /\ error' = error
     ELSE /\ error' = made.err
          /\ pc' = "idle"
          /\ UNCHANGED relationSchema
  /\ UNCHANGED <<args, factRuns, genType, runs, nodeSchema, subLabelList, nodeList,
                 relationList, idx, fs, written, declHistory>>

\* relation_schema_process: the file is opened for writing (truncated)
\* before writeRelationDeclation builds its text
RelationSchemaWrite ==
  /\ pc = "rel_schema_write"
  /\ LET text == writeRelationDeclation(relationSchema) IN
     IF text.ok
     THEN /\ fs' = fsWrite(fs, declPath(label), text.val)
          /\ declHistory' = Append(declHistory, text.val)
          /\ pc' = IF genType = "all" THEN "rel_fact_schema" ELSE "idle"
          /\ error' = error
     ELSE /\ fs' = fsWrite(fs, declPath(label), <<>>)
          /\ declHistory' = declHistory
          /\ pc' = "idle"
          /\ error' = text.err
  /\ UNCHANGED <<args, factRuns, genType, runs, mem, written>>

\* relation_fact_process: createRelationSchema
RelationFactCreateSchema ==
  /\ pc = "rel_fact_schema"
  /\ LET made == createRelationSchema(inputFile, label) IN
     IF made.ok
     THEN /\ relationSchema' = made.val
          /\ pc' = "rel_fact_relations"
          /\ error' = error
     ELSE /\ error' = made.err
          /\ pc' = "idle"
          /\ UNCHANGED relationSchema
  /\ factRuns' = factRuns + 1
  /\ UNCHANGED <<args, genType, runs, nodeSchema, subLabelList, nodeList,
                 relationList, idx, fs, written, declHistory>>

\* relation_fact_process: createRelation
RelationFactCreateRelations ==
  /\ pc = "rel_fact_relations"
  /\ LET made == createRelation(inputFile, relationSchema) IN
     IF made.ok
     THEN /\ relationList' = made.val
          /\ pc' = IF Len(made.val) = 0 THEN "idle" ELSE "rel_fact_write"
          /\ error' = error
     ELSE /\ error' = made.err
          /\ pc' = "idle"
          /\ UNCHANGED relationList
  /\ idx' = 0
  /\ UNCHANGED <<args, factRuns, genType, runs, nodeSchema, subLabelList, nodeList,
                 relationSchema, fs, written, declHistory>>

\* relation_fact_process: one iteration of the loop over relationList
RelationFactWrite ==
  /\ pc = "rel_fact_write"
  /\ idx < Len(relationList)
  /\ LET done == applyWrites(fs, written, relWrites(relationList[idx + 1]), 1, idx)
     IN /\ fs' = done.dir
        /\ written' = done.log
        /\ error' = done.err
        /\ idx' = IF done.err = "" THEN idx + 1 ELSE idx
        /\ pc' = IF done.err # "" \/ idx + 1 = Len(relationList) THEN "idle"
                 ELSE "rel_fact_write"
  /\ UNCHANGED <<args, factRuns, genType, runs, nodeSchema, subLabelList, nodeList,
                 relationSchema, relationList, declHistory>>

Next ==
  \/ StartRun
  \/ NodeSchemaCreate
  \/ NodeSchemaWrite
  \/ NodeFactCreateSchema
  \/ NodeFactCreateNodes
  \/ NodeFactWrite
  \/ RelationSchemaCreate
  \/ RelationSchemaWrite
  \/ RelationFactCreateSchema
  \/ RelationFactCreateRelations
  \/ RelationFactWrite

Spec == Init /\ [][Next]_vars

(***************************************************************************)
(* Reading emitted text back                                               *)
(***************************************************************************)
startsWith(line, prefix) ==
  Len(line) >= Len(prefix) /\ SubSeq(line, 1, Len(prefix)) = prefix

isDecl(line) == startsWith(line, ".decl ")
isInput(line) == startsWith(line, ".input ")
isRule(line) == str_contains(":- ", line)

\* the relation named by a .decl or .input statement or by a rule's head
declName(line) == SubSeq(line, 7, FirstAt("(", line, 1) - 1)
inputName(line) == SubSeq(line, 8, FirstAt("(", line, 1) - 1)
inputFilename(line) == str_split(line, "\"")[2]
headName(line) == SubSeq(line, 1, FirstAt("(", line, 1) - 1)
\* the relation named by a rule's body
bodyName(line) ==
  LET c == FirstAt("-", line, 1)
      rest == SubSeq(line, c + 2, Len(line))
  IN SubSeq(rest, 1, FirstAt("(", rest, 1) - 1)

\* the columns of a .decl statement
declColumns(line) == str_split(re_findall(line)[1], ",")

headerColumns == str_split(inputFile[1], "|")
\* the columns of the data row a record with this list index was built from
rowColumnsOf(rec) == str_split(inputFile[rec + 2], "|")

\* every data row has as many columns as the header
FullRows ==
  \A r \in 2..Len(inputFile) : Len(str_split(inputFile[r], "|")) = Len(headerColumns)

\* what the null policy makes of a raw column value
ExpectedText(raw, type) ==
  IF raw = "" THEN (IF type = "symbol" THEN "NULL" ELSE "0") ELSE raw

NodeSchemaBuilt == command = "node" /\ nodeSchema # NodeSchema
RelationSchemaBuilt == command = "relation" /\ relationSchema # RelationSchema
DeclWritten == declPath(label) \in DOMAIN fs

(***************************************************************************)
(* C1: every row-based node fact line has 1 + N tab-separated fields, N    *)
(* the number of property columns of the row-based declaration of the same *)
(* schema, and its k-th value field is the value of the k-th declared      *)
(* property of the row.  (Stated for files whose rows all have the         *)
(* header's number of columns.)                                            *)
(***************************************************************************)
C1_RowFactMatchesDeclaration ==
  (command = "node" /\ storage = "row" /\ FullRows) =>
    \A i \in 1..Len(written) :
      LET fields == str_split(written[i].line, TAB)
          decl == writeRowBasedNodeDeclaration(nodeSchema, subLabelList)
          N == Len(declColumns(decl[1])) - 1
          cols == rowColumnsOf(written[i].rec)
          P == nodeSchema.nodeProperty
      IN /\ Len(fields) = 1 + N
         /\ N = Len(P)
         /\ \A k \in 1..N : fields[k + 1] = ExpectedText(cols[P[k].pos + 1], P[k].type)

(***************************************************************************)
(* C2: every fact file that column-based fact generation appends a line to *)
(* is the filename of an .input directive of the column-based declaration  *)
(* of the same schema.                                                     *)
(***************************************************************************)
C2_ColumnFactFilesAreDeclared ==
  (command = "node" /\ storage = "col") =>
    \A i \in 1..Len(written) :
      LET decl == writeColumnBasedNodeDeclaration(nodeSchema, subLabelList) IN
      \E l \in 1..Len(decl) :
        isInput(decl[l]) /\ inputFilename(decl[l]) = written[i].file
(***************************************************************************)
(* C3: in every materialized node and relation, a property column whose    *)
(* raw value is empty is stored as the text NULL (symbol) or the text 0    *)
(* (unsigned), and a non-empty raw value is stored verbatim.  (Stated for  *)
(* rows with the header's number of columns; a node property is looked up  *)
(* under the name createNodes gives it.)                                   *)
(***************************************************************************)
nodeKey(node, name) ==
  IF nodeSchema.hasSubLabels THEN node.label \o str_capitalize(name) ELSE name

C3_NullSubstitutionIsText ==
  /\ (command = "node" /\ FullRows) =>
       \A i \in 1..Len(nodeList) : \A k \in 1..Len(nodeSchema.nodeProperty) :
         LET p == nodeSchema.nodeProperty[k]
             key == nodeKey(nodeList[i], p.name)
         IN /\ od_has(nodeList[i].property, key)
            /\ od_get(nodeList[i].property, key)
                 = StrVal(ExpectedText(rowColumnsOf(i - 1)[p.pos + 1], p.type))
  /\ (command = "relation" /\ FullRows) =>
       \A i \in 1..Len(relationList) : \A k \in 1..Len(relationSchema.relationProperty) :
         LET p == relationSchema.relationProperty[k] IN
         /\ od_has(relationList[i].property, p.name)
         /\ od_get(relationList[i].property, p.name)
              = StrVal(ExpectedText(rowColumnsOf(i - 1)[p.pos + 1], p.type))

(***************************************************************************)
(* C4: a row-based node fact run whose createNodes succeeded ends without  *)
(* error, having written exactly one line per data row: the identifier and *)
(* the row's property values, tab-separated, an empty symbol value as NULL *)
(* and an empty unsigned value as 0.  (Stated for headers with distinct    *)
(* property names and rows with the header's number of columns.)           *)
(***************************************************************************)
DistinctPropertyNames ==
  \A j, k \in 1..Len(nodeSchema.nodeProperty) :
    nodeSchema.nodeProperty[j].name = nodeSchema.nodeProperty[k].name => j = k

\* the identifier column is the one whose header token holds ":ID"
ExpectedRowLine(rec) ==
  LET cols == rowColumnsOf(rec)
      idPos == CHOOSE c \in 1..Len(headerColumns) : str_contains(":ID", headerColumns[c])
      P == nodeSchema.nodeProperty
  IN str_join(<<cols[idPos]>>
              \o [k \in 1..Len(P) |-> ExpectedText(cols[P[k].pos + 1], P[k].type)], TAB)

C4_RowRoundTrip ==
  (/\ command = "node" /\ storage = "row" /\ pc = "idle"
   /\ Len(nodeList) > 0 /\ FullRows /\ DistinctPropertyNames
   /\ Cardinality({c \in 1..Len(headerColumns) : str_contains(":ID", headerColumns[c])}) = 1)
  => /\ error = ""
     /\ Len(written) = Len(nodeList)
     /\ \A i \in 1..Len(written) : written[i].line = ExpectedRowLine(i - 1)

(***************************************************************************)
(* C5: a node built from a row with sub-label S holds, for every property  *)
(* p of the schema in header order, the key S followed by p with only its  *)
(* first character upper-cased; it has as many properties as the schema.   *)
(***************************************************************************)
firstUpper(p) == IF Len(p) = 0 THEN "" ELSE chr_upper(CharAt(p, 1)) \o Tail(p)

C5_SubLabelRenaming ==
  (command = "node" /\ nodeSchema.hasSubLabels /\ FullRows) =>
    \A i \in 1..Len(nodeList) :
      LET S == rowColumnsOf(i - 1)[nodeSchema.subLabelsPosition + 1]
          P == nodeSchema.nodeProperty
          node == nodeList[i]
      IN /\ Len(node.property) = Len(P)
         /\ \A k \in 1..Len(P) : node.property[k].k = S \o firstUpper(P[k].name)

(***************************************************************************)
(* C6: the column-based declaration of a schema with sub-labels L and      *)
(* properties P holds |L| x |P| property union rules and |L| identifier    *)
(* union rules, and the rule for sub-label A and property p has the body   *)
(* relation A followed by the original name of p.                          *)
(***************************************************************************)
C6_ColumnUnionRules ==
  (NodeSchemaBuilt /\ storage = "col" /\ nodeSchema.hasSubLabels /\ DeclWritten) =>
    LET decl == fs[declPath(label)]
        L == nodeSchema.nodeSubLabels
        P == nodeSchema.nodeProperty
        G == nodeSchema.nodeGlobalLabel
        rules == {l \in 1..Len(decl) : isRule(decl[l])}
        idRules == {l \in rules : headName(decl[l]) = G}
    IN /\ Cardinality(rules \ idRules) = Cardinality(L) * Len(P)
       /\ Cardinality(idRules) = Cardinality(L)
       /\ \A A \in L : \A k \in 1..Len(P) :
            \E l \in rules \ idRules : bodyName(decl[l]) = A \o P[k].name

(***************************************************************************)
(* C7: the column-based declaration of a schema without sub-labels holds,  *)
(* after the identifier relation, exactly one .decl and one .input per     *)
(* property, in header order, under the bare property name when the name   *)
(* contains the global label case-insensitively and under the global label *)
(* followed by the capitalized name (str.capitalize: first character       *)
(* upper-cased, the others lower-cased) otherwise.                         *)
(***************************************************************************)
C7_ExpectedName(G, name) ==
  IF str_contains(str_lower(G), str_lower(name)) THEN name
  ELSE G \o str_capitalize(name)

C8_Columns(P) ==
  "(" \o str_join(<<"id:unsigned">> \o [k \in 1..Len(P) |-> P[k].name \o ":" \o P[k].type], ", ")
  \o ")"
C8_Arguments(P) ==
  "(" \o str_join(<<"id">> \o [k \in 1..Len(P) |-> P[k].name], ", ") \o ")"

C8_RowDeclarationWithSubLabels ==
  (NodeSchemaBuilt /\ storage = "row" /\ nodeSchema.hasSubLabels /\ DeclWritten) =>
    LET decl == fs[declPath(label)]
        L == nodeSchema.nodeSubLabels
        n == Cardinality(L)
        P == nodeSchema.nodeProperty
        G == nodeSchema.nodeGlobalLabel
    IN /\ Len(decl) = 3 * n + 1 + n + 1
       /\ \A k \in 0..(n - 1) :
            /\ isDecl(decl[3 * k + 1])
            /\ declName(decl[3 * k + 1]) \in L
            /\ decl[3 * k + 1] = ".decl " \o declName(decl[3 * k + 1]) \o C8_Columns(P)
            /\ decl[3 * k + 2] = inputLine(declName(decl[3 * k + 1]))
            /\ decl[3 * k + 3] = ""
       /\ {declName(decl[3 * k + 1]) : k \in 0..(n - 1)} = L
       /\ decl[3 * n + 1] = ".decl " \o G \o C8_Columns(P)
       /\ \A k \in 1..n :
            /\ bodyName(decl[3 * n + 1 + k]) \in L
            /\ decl[3 * n + 1 + k] = G \o C8_Arguments(P) \o ":- "
                 \o bodyName(decl[3 * n + 1 + k]) \o C8_Arguments(P) \o "."
       /\ {bodyName(decl[3 * n + 1 + k]) : k \in 1..n} = L
       /\ decl[4 * n + 2] = ""

C8_Witness ==
  /\ NodeSchemaBuilt /\ storage = "row" /\ nodeSchema.hasSubLabels /\ DeclWritten
  /\ Cardinality(nodeSchema.nodeSubLabels) >= 2
  /\ Len(nodeSchema.nodeProperty) >= 2

(***************************************************************************)
(* C9: every emission of the node declaration for the same input file,     *)
(* label and storage mode writes the same text.                            *)
(***************************************************************************)
C9_DeclarationTextDeterministic ==
  command = "node" =>
    \A i, j \in 1..Len(declHistory) : declHistory[i] = declHistory[j]

(***************************************************************************)
(* C10: for a header with one START_ID and one END_ID column the relation  *)
(* schema defines both endpoint names, each the parenthetical name of its  *)
(* column followed by Id, or startId / endId without one, and              *)
(* writeRelationDeclation succeeds.                                        *)
(***************************************************************************)
C10_StartColumns == {c \in 1..Len(headerColumns) : str_contains("START_ID", headerColumns[c])}
C10_EndColumns ==
  {c \in 1..Len(headerColumns) :
     ~str_contains("START_ID", headerColumns[c]) /\ str_contains("END_ID", headerColumns[c])}
C10_Expected(token, default) ==
  IF Len(re_findall(token)) = 1 THEN re_findall(token)[1] \o "Id" ELSE default

C10_EndpointNamesDefined ==
  (/\ RelationSchemaBuilt
   /\ Cardinality(C10_StartColumns) = 1 /\ Cardinality(C10_EndColumns) = 1)
  => LET s == CHOOSE c \in C10_StartColumns : TRUE
         e == CHOOSE c \in C10_EndColumns : TRUE
     IN /\ getSourceName(relationSchema) = Ok(C10_Expected(headerColumns[s], "startId"))
        /\ getTargetName(relationSchema) = Ok(C10_Expected(headerColumns[e], "endId"))
        /\ writeRelationDeclation(relationSchema).ok

(***************************************************************************)
(* C11: a relation fact run whose createRelation succeeded ends without    *)
(* error, having written one line per data row: the value of the START_ID  *)
(* column, then the value of the END_ID column, then the value of every    *)
(* property column in header order (an empty value as NULL or 0),          *)
(* tab-separated, wherever the START_ID and END_ID columns are in the      *)
(* header.  (Stated for rows with the header's number of columns.)         *)
(***************************************************************************)
C11_ExpectedLine(rec) ==
  LET cols == rowColumnsOf(rec)
      s == CHOOSE c \in C10_StartColumns : TRUE
      e == CHOOSE c \in C10_EndColumns : TRUE
      P == relationSchema.relationProperty
  IN str_join(<<cols[s], cols[e]>>
              \o [k \in 1..Len(P) |-> ExpectedText(cols[P[k].pos + 1], P[k].type)], TAB)

C11_RelationFactColumnOrder ==
  (/\ command = "relation" /\ pc = "idle" /\ Len(relationList) > 0 /\ FullRows
   /\ Cardinality(C10_StartColumns) = 1 /\ Cardinality(C10_EndColumns) = 1)
  => /\ error = ""
     /\ Len(written) = Len(relationList)
     /\ \A i \in 1..Len(written) : written[i].line = C11_ExpectedLine(i - 1)

(***************************************************************************)
(* C12: in every node schema and every relation schema built, the type of  *)
(* a property column whose header token has a tag is symbol for STRING,    *)
(* unsigned for LONG and for INT, and symbol for every other tag; no run   *)
(* ends with an unknown-type error.                                        *)
(***************************************************************************)
C12_KnownTags == {"STRING", "LONG", "INT"}
C12_Tag(token) == str_split(token, ":")[2]
C12_Expected(tag) ==
  IF tag = "STRING" THEN "symbol" ELSE IF tag \in {"LONG", "INT"} THEN "unsigned" ELSE "symbol"

C12_Mapped(P) ==
  \A k \in 1..Len(P) :
    LET token == headerColumns[P[k].pos + 1] IN
    /\ P[k].type \in {"symbol", "unsigned"}
    /\ str_contains(":", token) => P[k].type = C12_Expected(C12_Tag(token))

C13_IdColumns ==
  LET columns == headerColumns
  IN {c \in 1..Len(columns) : str_contains(":ID", columns[c])}
\* the number of parenthetical groups of a header token, and the first one
C13_Groups(token) == Cardinality({i \in 1..Len(token) : CharAt(token, i) = "("})
C13_GroupText(token) ==
  SubSeq(token, FirstAt("(", token, 1) + 1, FirstAt(")", token, 1) - 1)

C13_GlobalLabelInferred ==
  NodeSchemaBuilt =>
    LET columns == headerColumns
        ids == C13_IdColumns
    IN (Cardinality(ids) = 1 /\ \A c \in ids : C13_Groups(columns[c]) = 1)
       => \A c \in ids : nodeSchema.nodeGlobalLabel = C13_GroupText(columns[c])

\* the group's text replaced the caller's label
C13_Witness ==
  /\ NodeSchemaBuilt
  /\ Cardinality(C13_IdColumns) = 1
  /\ label = "L"
  /\ nodeSchema.nodeGlobalLabel = "Organisation"

(***************************************************************************)
(* C14: when the caller passes a label and the identifier column of the    *)
(* header has no parenthetical group, schema construction succeeds and the *)
(* global label is the caller's label; the too-many-labels error ends a    *)
(* run only when the identifier columns carry more than one group.         *)
(***************************************************************************)
C14_TooMany == "Error: too many (LABEL) found in the input data file"
C14_SchemaStepDone ==
  command = "node" /\ runs > 0 /\ pc \notin {"node_schema_create", "node_fact_schema"}
\* the number of parenthetical groups on the identifier columns of the header
RECURSIVE C14_GroupTotal(_)
C14_GroupTotal(columns) ==
  IF Len(columns) = 0 THEN 0
  ELSE (IF str_contains(":ID", columns[1]) THEN C13_Groups(columns[1]) ELSE 0)
       + C14_GroupTotal(Tail(columns))

C14_CallerSuppliedLabel ==
  /\ (/\ C14_SchemaStepDone /\ label # "" /\ label # None
      /\ C13_IdColumns # {} /\ C14_GroupTotal(headerColumns) = 0)
     => /\ NodeSchemaBuilt
        /\ nodeSchema.nodeGlobalLabel = label
  /\ (C14_SchemaStepDone /\ C14_GroupTotal(headerColumns) <= 1) => error # C14_TooMany

(***************************************************************************)
(* C15: when the identifier columns of the header carry more than one      *)
(* parenthetical group, on one column or over several, createNodeSchema    *)
(* raises and no schema is built.                                          *)
(***************************************************************************)
C15_MalformedHeaderIsFatal ==
  (C14_SchemaStepDone /\ C14_GroupTotal(headerColumns) > 1)
  => /\ error = C14_TooMany
     /\ ~NodeSchemaBuilt

(***************************************************************************)
(* C16: no Node and no Relation is ever built from a data row whose number *)
(* of columns differs from the header's: createNodes and createRelation    *)
(* raise for such a row, whether it has more columns or fewer.             *)
(***************************************************************************)
C16_RowMatchesHeader(rec) == Len(rowColumnsOf(rec)) = Len(headerColumns)

C16_DesynchronizedRowIsFatal ==
  /\ command = "node" => \A i \in 1..Len(nodeList) : C16_RowMatchesHeader(i - 1)
  /\ command = "relation" => \A i \in 1..Len(relationList) : C16_RowMatchesHeader(i - 1)

(***************************************************************************)
(* C17: no Node returned by createNodes has an empty or null id, and every *)
(* node fact line written starts with a non-empty id.                      *)
(***************************************************************************)
C17_EmptyIdentifierIsFatal ==
  command = "node" =>
    /\ \A i \in 1..Len(nodeList) : nodeList[i].id # "" /\ nodeList[i].id # None
    /\ \A i \in 1..Len(written) : str_split(written[i].line, TAB)[1] # ""

(***************************************************************************)
(* C18: without a label (None or empty) every relation run ends with the   *)
(* missing-label error whatever the header is, no relation schema and no   *)
(* Relation is built and no output file is opened; with a label that error *)
(* never occurs and every Relation built has the schema's global label,    *)
(* the caller's.                                                           *)
(***************************************************************************)
C18_LabelError == "Error: please supply relation label through cli option."

C18_RelationSchemaRequiresLabel ==
  command = "relation" =>
    IF label = "" \/ label = None
    THEN /\ ~RelationSchemaBuilt
         /\ relationList = <<>>
         /\ fs = EmptyDir
         /\ (runs > 0 /\ pc = "idle") => error = C18_LabelError
    ELSE /\ error # C18_LabelError
         /\ RelationSchemaBuilt => relationSchema.relationGlobalLabel = label
         /\ \A i \in 1..Len(relationList) :
              relationList[i].label = relationSchema.relationGlobalLabel

C18_Witness ==
  /\ command = "relation" /\ label = "" /\ runs = MaxRuns /\ pc = "idle"
  /\ error = C18_LabelError

(***************************************************************************)
(* C19: after k fact generations on the same input into the same output    *)
(* directory every fact file holds the lines one generation writes to it,  *)
(* k times over; while a generation is under way it holds the lines of the *)
(* earlier ones followed by the first lines of one more; there is no other *)
(* fact file.                                                              *)
(***************************************************************************)
C19_IsFactFile(name) ==
  Len(name) >= 6 /\ SubSeq(name, Len(name) - 5, Len(name)) = ".facts"

\* the lines one fact generation writes to each file of an empty directory
RECURSIVE C19_Lines(_, _, _)
C19_Lines(file, writes, i) ==
  IF i > Len(writes) \/ ~writes[i].res.ok THEN <<>>
  ELSE (IF writes[i].file = file THEN <<writes[i].res.val>> ELSE <<>>)
       \o C19_Lines(file, writes, i + 1)
\* the files opened up to and including the first write that raises
C19_Opened(writes) ==
  {writes[i].file : i \in {j \in 1..Len(writes) :
                              \A h \in 1..(j - 1) : writes[h].res.ok}}

C19_Writes ==
  IF command = "node"
  THEN LET schema == createNodeSchema(inputFile, label) IN
       IF ~schema.ok THEN <<>>
       ELSE LET nodes == createNodes(inputFile, schema.val) IN
            IF ~nodes.ok THEN <<>>
            ELSE Flatten([i \in 1..Len(nodes.val) |->
                            IF storage = "row" THEN rowWrites(nodes.val[i], schema.val)
                            ELSE colWrites(nodes.val[i])])
  ELSE LET schema == createRelationSchema(inputFile, label) IN
       IF ~schema.ok THEN <<>>
       ELSE LET relations == createRelation(inputFile, schema.val) IN
            IF ~relations.ok THEN <<>>
            ELSE Flatten([i \in 1..Len(relations.val) |-> relWrites(relations.val[i])])

RECURSIVE C19_Repeat(_, _)
C19_Repeat(lines, k) == IF k <= 0 THEN <<>> ELSE lines \o C19_Repeat(lines, k - 1)

C19_InFactRun ==
  pc \in {"node_fact_nodes", "node_fact_write", "rel_fact_relations", "rel_fact_write"}

C19_AppendAccumulation ==
  LET writes == C19_Writes
      files == C19_Opened(writes)
      k == IF C19_InFactRun THEN factRuns - 1 ELSE factRuns
  IN /\ \A f \in DOMAIN fs : C19_IsFactFile(f) => f \in files
     /\ \A f \in files :
          LET one == C19_Lines(f, writes, 1)
              content == IF f \in DOMAIN fs THEN fs[f] ELSE <<>>
          IN IF C19_InFactRun
             THEN \E n \in 0..Len(one) :
                    content = C19_Repeat(one, k) \o SubSeq(one, 1, n)
             ELSE /\ content = C19_Repeat(one, k)
                  /\ k > 0 => f \in DOMAIN fs

\* two generations have left a file of two lines with four
C19_Witness ==
  /\ pc = "idle" /\ factRuns = 2
  /\ \E f \in DOMAIN fs :
       /\ C19_IsFactFile(f)
       /\ Len(C19_Lines(f, C19_Writes, 1)) = 2
       /\ fs[f] = C19_Lines(f, C19_Writes, 1) \o C19_Lines(f, C19_Writes, 1)
       /\ fs[f][1] # fs[f][2]

(***************************************************************************)
(* C20: in a node fact generation on a file with a :LABEL column, when     *)
(* createNodes starts and from then on the schema's sub-label set holds    *)
(* the label of every data row and no Node exists before; when the first   *)
(* fact line is appended and from then on there is a Node for every data   *)
(* row.                                                                    *)
(***************************************************************************)
C20_LabelColumns ==
  LET columns == headerColumns
  IN {c \in 1..Len(columns) :
        ~str_contains(":ID", columns[c]) /\ str_contains(":LABEL", columns[c])}
C20_RowLabels ==
  LET labelColumns == C20_LabelColumns
  IN {str_split(inputFile[r], "|")[c] : r \in 2..Len(inputFile), c \in labelColumns}

C20_PassOrdering ==
  (/\ command = "node"
   /\ pc = "node_fact_nodes" \/ pc = "node_fact_write" \/ Len(nodeList) > 0 \/ Len(written) > 0
   /\ Cardinality(C20_LabelColumns) = 1) =>
    /\ pc = "node_fact_nodes" =>
         nodeList = <<>> /\ written = <<>> /\ nodeSchema.nodeSubLabels = C20_RowLabels
    /\ Len(nodeList) > 0 => nodeSchema.nodeSubLabels = C20_RowLabels
    /\ (pc = "node_fact_write" \/ Len(written) > 0) => Len(nodeList) = Len(inputFile) - 1

\* the first of two nodes with different sub-labels has been written
C20_Witness ==
  /\ command = "node" /\ Cardinality(C20_LabelColumns) = 1
  /\ pc = "node_fact_write" /\ Len(written) > 0 /\ idx = 1
  /\ Len(nodeList) = 2
  /\ Cardinality(nodeSchema.nodeSubLabels) = 2

(***************************************************************************)
(* C21: a node schema built from a header with a :LABEL column has         *)
(* sub-labels, and its sub-label set is the set of the values of that      *)
(* column over all data rows, iterated each once; a schema built from a    *)
(* header without a :LABEL column has no sub-labels and an empty set, and  *)
(* its construction never fails on a data row.                             *)
(***************************************************************************)
C21_SubLabelDiscovery ==
  /\ NodeSchemaBuilt =>
       LET labelColumns == C20_LabelColumns
           rowLabels == C20_RowLabels
       IN
       /\ Cardinality(labelColumns) = 1 =>
            /\ nodeSchema.hasSubLabels
            /\ nodeSchema.nodeSubLabels = rowLabels
            /\ Len(subLabelList) = Cardinality(rowLabels)
            /\ {subLabelList[i] : i \in 1..Len(subLabelList)} = rowLabels
       /\ labelColumns = {} =>
            /\ ~nodeSchema.hasSubLabels
            /\ nodeSchema.nodeSubLabels = {}
            /\ subLabelList = <<>>
  /\ (command = "node" /\ error = "IndexError: list index out of range")
       => C20_LabelColumns # {}

\* two data rows carry the same label
C21_Witness ==
  /\ NodeSchemaBuilt
  /\ Cardinality(C20_LabelColumns) = 1
  /\ Len(inputFile) = 3
  /\ nodeSchema.nodeSubLabels = {"S"}

(***************************************************************************)
(* C22: the properties of a node or relation schema are exactly the header *)
(* columns that are neither identifier nor label (nor endpoint) columns,   *)
(* in header order, each at its own position, named by the text before    *)
(* the first colon of its token and typed by the mapping of the whole text *)
(* after the first colon, or named by the whole token and typed unsigned   *)
(* when the token has no colon.                                            *)
(***************************************************************************)
C22_IsProperty(token, ofRelation) ==
  IF ofRelation
  THEN ~str_contains("START_ID", token) /\ ~str_contains("END_ID", token)
  ELSE ~str_contains(":ID", token) /\ ~str_contains(":LABEL", token)

C22_Name(token) ==
  IF FirstAt(":", token, 1) = 0 THEN token
  ELSE SubSeq(token, 1, FirstAt(":", token, 1) - 1)

C22_Type(token) ==
  IF FirstAt(":", token, 1) = 0 THEN "unsigned"
  ELSE C12_Expected(SubSeq(token, FirstAt(":", token, 1) + 1, Len(token)))

RECURSIVE C22_Properties(_, _, _)
C22_Properties(columns, c, ofRelation) ==
  IF c > Len(columns) THEN <<>>
  ELSE (IF C22_IsProperty(columns[c], ofRelation)
        THEN << [pos |-> c - 1, name |-> C22_Name(columns[c]), type |-> C22_Type(columns[c])] >>
        ELSE <<>>)
       \o C22_Properties(columns, c + 1, ofRelation)

C22_PropertyColumnParsing ==
  /\ NodeSchemaBuilt => nodeSchema.nodeProperty = C22_Properties(headerColumns, 1, FALSE)
  /\ RelationSchemaBuilt =>
       relationSchema.relationProperty = C22_Properties(headerColumns, 1, TRUE)

(***************************************************************************)
(* C23: when the write loop of a fact generation has ended and a writer    *)
(* raises for some record of the materialized list, the run ended with     *)
(* that error at the first such record i: all the lines of every record    *)
(* before i were written, in order, no line of a record after i was, and   *)
(* the lines written are the last lines of their fact files.               *)
(***************************************************************************)
C23_Count == IF command = "node" THEN Len(nodeList) ELSE Len(relationList)
C23_WritesOf(i) ==
  IF command = "node"
  THEN (IF storage = "row" THEN rowWrites(nodeList[i], nodeSchema) ELSE colWrites(nodeList[i]))
  ELSE relWrites(relationList[i])
C23_Raises(i) == \E w \in 1..Len(C23_WritesOf(i)) : ~C23_WritesOf(i)[w].res.ok
C23_Failing == {i \in 1..C23_Count : C23_Raises(i)}

C23_IsSuffix(s, full) ==
  Len(s) <= Len(full) /\ SubSeq(full, Len(full) - Len(s) + 1, Len(full)) = s

C23_NoRollback ==
  (pc = "idle" /\ C23_Count > 0 /\ C23_Failing # {}) =>
    LET i == CHOOSE j \in C23_Failing : \A h \in C23_Failing : j <= h IN
    /\ error = TypeError
    /\ idx = i - 1
    /\ \A e \in 1..Len(written) : written[e].rec <= i - 1
    /\ \A j \in 1..(i - 1) :
         LET ofRecord(e) == e.rec = j - 1
             writes == C23_WritesOf(j)
         IN SelectSeq(written, ofRecord) =
              [w \in 1..Len(writes) |->
                 [file |-> writes[w].file, line |-> writes[w].res.val, rec |-> j - 1]]
    /\ \A f \in {written[e].file : e \in 1..Len(written)} :
         LET toFile(e) == e.file = f
             lines == SelectSeq(written, toFile)
         IN /\ f \in DOMAIN fs
            /\ C23_IsSuffix([l \in 1..Len(lines) |-> lines[l].line], fs[f])

\* the second record's writer raised; the first record's line stays
C23_Witness ==
  /\ pc = "idle" /\ C23_Count = 2 /\ C23_Failing = {2}
  /\ error = TypeError
  /\ Len(written) > 0

(***************************************************************************)
(* C24: in the column-based declaration written for a schema with          *)
(* sub-labels, the relation named by the head and the relation named by    *)
(* the body of every union rule is declared by a .decl statement of the    *)
(* same text, and the body relation of every property union rule has an    *)
(* .input directive.                                                       *)
(***************************************************************************)
C24_UnionRulesReferenceDeclared ==
  (NodeSchemaBuilt /\ storage = "col" /\ nodeSchema.hasSubLabels /\ DeclWritten) =>
    LET decl == fs[declPath(label)]
        declared == {declName(decl[l]) : l \in {m \in 1..Len(decl) : isDecl(decl[m])}}
        loaded == {inputName(decl[l]) : l \in {m \in 1..Len(decl) : isInput(decl[m])}}
    IN \A l \in 1..Len(decl) :
         isRule(decl[l]) =>
           /\ headName(decl[l]) \in declared
           /\ bodyName(decl[l]) \in declared
           /\ headName(decl[l]) # nodeSchema.nodeGlobalLabel => bodyName(decl[l]) \in loaded

(***************************************************************************)
(* C25: no step of a schema run changes or creates a fact file, and the    *)
(* only file it can create is {label}_decl.txt; no step of a fact run      *)
(* changes or creates {label}_decl.txt; a step of an all run that changes  *)
(* a fact file finds the run's whole declaration in {label}_decl.txt and   *)
(* leaves it alone; and every step that emits a declaration leaves exactly *)
(* that declaration, one copy, in {label}_decl.txt.                        *)
(***************************************************************************)
C25_FactFiles(dir) == {f \in DOMAIN dir : C19_IsFactFile(f)}

C25_FactsUnchanged ==
  /\ C25_FactFiles(fs') = C25_FactFiles(fs)
  /\ \A f \in C25_FactFiles(fs) : fs'[f] = fs[f]

C25_DeclUnchanged ==
  IF declPath(label) \in DOMAIN fs
  THEN declPath(label) \in DOMAIN fs' /\ fs'[declPath(label)] = fs[declPath(label)]
  ELSE declPath(label) \notin DOMAIN fs'

C25_Step ==
  /\ genType = "schema" =>
       C25_FactsUnchanged /\ DOMAIN fs' \subseteq (DOMAIN fs) \cup {declPath(label)}
  /\ genType = "fact" => C25_DeclUnchanged
  /\ (genType = "all" /\ ~C25_FactsUnchanged) =>
       /\ C25_DeclUnchanged
       /\ declPath(label) \in DOMAIN fs
       /\ Len(declHistory) > 0
       /\ fs[declPath(label)] = declHistory[Len(declHistory)]
       /\ Len(fs[declPath(label)]) > 0
  /\ declHistory' # declHistory =>
       /\ declPath(label) \in DOMAIN fs'
       /\ fs'[declPath(label)] = declHistory'[Len(declHistory')]

C25_GenerationModeFrame == [][C25_Step]_vars

\* a second run, of mode all, has rewritten the declaration and appended facts
C25_Witness ==
  /\ runs = 2 /\ pc = "idle" /\ genType = "all"
  /\ Len(declHistory) = 2
  /\ fs[declPath(label)] = declHistory[2]
  /\ Len(written) > 0

(***************************************************************************)
(* C26: every relation fact line written has as many tab-separated fields  *)
(* as the relation declaration of the same schema has columns, two plus    *)
(* the number of property columns of the header, and its k-th property     *)
(* field is the value of the k-th property column of the row, which the    *)
(* declaration declares with that header column's type; a fact run whose   *)
(* createRelation succeeded writes a line for every row.  (Stated for rows *)
(* with the header's number of columns.)                                   *)
(***************************************************************************)
C26_DeclarationMatchesFacts ==
  (command = "relation" /\ RelationSchemaBuilt /\ FullRows) =>
    LET P == relationSchema.relationProperty
        decl == writeRelationDeclation(relationSchema)
    IN /\ decl.ok =>
            LET columns == declColumns(decl.val[1]) IN
            /\ Len(columns) = 2 + Len(P)
            /\ \A k \in 1..Len(P) :
                 str_split(columns[k + 2], ":")[2] = P[k].type
       /\ \A i \in 1..Len(written) :
            LET fields == str_split(written[i].line, TAB)
                cols == rowColumnsOf(written[i].rec)
            IN /\ Len(fields) = 2 + Len(P)
               /\ \A k \in 1..Len(P) :
                    fields[k + 2] = ExpectedText(cols[P[k].pos + 1], P[k].type)
       /\ (pc = "idle" /\ Len(relationList) > 0) => Len(written) = Len(relationList)
====
